---- MODULE Spec2Model ----
(***************************************************************************)
(* A model of unplugin-tailwind-prefixer (src/src/plugin.ts).              *)
(*                                                                         *)
(* Strings are TLA+ strings; a character is a string of length 1.          *)
(* Three specifications share the module's variables:                      *)
(*   Spec        the plugin instance: buildStart and transform calls       *)
(*   TokenSpec   the token-level functions applied to one token            *)
(*   StringSpec  the String Rewriter applied to one class string           *)
(***************************************************************************)
EXTENDS Integers, Sequences, FiniteSets, TLC

VARIABLES
    userOpts,       \* the options the plugin instance was created with
    cachedPrefix,   \* let cachedPrefix: string | null  (<<>> is null, <<s>> is s)
    builds,         \* number of buildStart calls so far
    transforms,     \* number of transform calls so far
    res,            \* what the last transform call read and returned
    pc,             \* position of the function harness
    input,          \* the token or class string the functions are applied to
    prefix,         \* the prefix argument
    isTw,           \* the classifier override argument ("undefined" = none)
    segs,           \* splitVariants(input)
    likely,         \* isLikelyTailwindToken(input)
    once,           \* prefixOneToken(input, prefix)
    twice,          \* prefixOneToken(once, prefix)
    rw,             \* transformClassesInString(input, prefix)
    rwBang,         \* transformClassesInString("!" + input, prefix)
    out1,           \* transformClassesInString(input, prefix, isTw)
    out2            \* transformClassesInString(out1, prefix, isTw)

pluginVars == <<userOpts, cachedPrefix, builds, transforms, res>>
fnVars == <<pc, input, prefix, isTw, segs, likely, once, twice, rw, rwBang, out1, out2>>
vars == <<userOpts, cachedPrefix, builds, transforms, res,
          pc, input, prefix, isTw, segs, likely, once, twice, rw, rwBang, out1, out2>>

----------------------------------------------------------------------------
(* Bounds *)

MaxTokLen == 4
MaxToks == 2
MaxBuilds == 2
MaxTransforms == 2

----------------------------------------------------------------------------
(* JavaScript string primitives *)

null == "null"
undefined == "undefined"

\* token[i], 1-based
Ch(s, i) == SubSeq(s, i, i)

\* s.startsWith(p)
startsWith(s, p) == Len(p) <= Len(s) /\ SubSeq(s, 1, Len(p)) = p

\* s.slice(n), 0-based n
slice(s, n) == SubSeq(s, n + 1, Len(s))

RECURSIVE joinFrom(_, _, _)
joinFrom(arr, sep, i) ==
    IF i > Len(arr) THEN ""
    ELSE IF i = Len(arr) THEN arr[i]
    ELSE arr[i] \o sep \o joinFrom(arr, sep, i + 1)

\* arr.join(sep)
join(arr, sep) == joinFrom(arr, sep, 1)

UpperCase == {"A", "B", "C", "D", "E", "F", "G", "H", "I", "J", "K", "L", "M",
              "N", "O", "P", "Q", "R", "S", "T", "U", "V", "W", "X", "Y", "Z"}
LowerCase == {"a", "b", "c", "d", "e", "f", "g", "h", "i", "j", "k", "l", "m",
              "n", "o", "p", "q", "r", "s", "t", "u", "v", "w", "x", "y", "z"}

\* \s of a JavaScript regular expression, as far as the inputs use it
WhiteSpace == {" ", "\t", "\n"}

----------------------------------------------------------------------------
(* splitVariants *)

\* parts.push(buf) at a top-level ":"
pushPart_skipEmpty(parts, buf) == IF buf = "" THEN parts ELSE Append(parts, buf)

pushPart(parts, buf) == Append(parts, buf)

\* One iteration of the for loop: st is [parts, buf, depth, quote], ch is
\* token[i] and prev is token[i - 1].
splitStep(st, ch, prev) ==
    IF st.quote # null THEN
        [st EXCEPT !.buf = @ \o ch,
                   !.quote = IF ch = st.quote /\ prev # "\\" THEN null ELSE @]
    ELSE IF ch = "'" \/ ch = "\"" THEN
        [st EXCEPT !.quote = ch, !.buf = @ \o ch]
    ELSE IF ch = "[" THEN
        [st EXCEPT !.depth = @ + 1, !.buf = @ \o ch]
    ELSE IF ch = "]" THEN
        [st EXCEPT !.depth = IF @ - 1 > 0 THEN @ - 1 ELSE 0, !.buf = @ \o ch]
    ELSE IF ch = ":" /\ st.depth = 0 THEN
        [st EXCEPT !.parts = pushPart(@, st.buf), !.buf = ""]
    ELSE
        [st EXCEPT !.buf = @ \o ch]

splitInit == [parts |-> <<>>, buf |-> "", depth |-> 0, quote |-> null]

\* The loop state after the first n characters of token. (The state before
\* the n-th character is bound once, then stepped.)
RECURSIVE splitLoop(_, _)
splitLoop(token, n) ==
    IF n = 0 THEN splitInit
    ELSE CHOOSE next \in
            { splitStep(st, Ch(token, n),
                        IF n > 1 THEN Ch(token, n - 1) ELSE undefined) :
              st \in {splitLoop(token, n - 1)} } : TRUE

\* if (buf) parts.push(buf); return parts
splitResult(st) == IF st.buf # "" THEN Append(st.parts, st.buf) ELSE st.parts

splitVariants(token) == splitResult(splitLoop(token, Len(token)))

----------------------------------------------------------------------------
(* isLikelyTailwindToken *)

TW_ROOTS == {
    "container", "sr-only", "not-sr-only", "static", "fixed", "absolute",
    "relative", "sticky", "block", "inline", "inline-block", "inline-flex",
    "flex", "grid", "table", "contents", "hidden", "m", "mx", "my", "mt",
    "mr", "mb", "ml", "p", "px", "py", "pt", "pr", "pb", "pl", "space-x",
    "space-y", "w", "h", "min-w", "min-h", "max-w", "max-h", "size",
    "inset", "top", "right", "bottom", "left", "font", "text",
    "antialiased", "subpixel-antialiased", "tracking", "leading", "list",
    "placeholder", "bg", "from", "via", "to", "border", "rounded", "shadow",
    "ring", "outline", "opacity", "decoration", "flex-grow", "grow",
    "flex-shrink", "shrink", "basis", "order", "grid-cols", "grid-rows",
    "col", "row", "gap", "place", "items", "justify", "content", "self",
    "auto-cols", "auto-rows", "transform", "scale", "rotate", "translate",
    "skew", "origin", "transition", "duration", "ease", "delay", "cursor",
    "select", "resize", "scroll", "snap", "touch", "pointer-events",
    "accent", "appearance", "fill", "stroke", "stroke-w", "filter",
    "backdrop", "z", "overflow", "object", "align", "whitespace", "break",
    "isolate", "isolation" }

\* /^[A-Z]/.test(token): only the first character is looked at
hasUpperCase_firstOnly(token) == Len(token) > 0 /\ Ch(token, 1) \in UpperCase

\* /[A-Z]/.test(token)
hasUpperCase(token) == \E i \in 1..Len(token) : Ch(token, i) \in UpperCase

RECURSIVE indexOfFrom(_, _, _)
indexOfFrom(s, c, i) ==
    IF i > Len(s) THEN 0
    ELSE IF Ch(s, i) = c THEN i
    ELSE indexOfFrom(s, c, i + 1)

\* core.split("-")[0]
firstDashPart(core) ==
    LET k == indexOfFrom(core, "-", 1)
    IN  IF k = 0 THEN core ELSE SubSeq(core, 1, k - 1)

\* /^[a-z-]+$/.test(core)
isLowerDash(core) ==
    /\ Len(core) > 0
    /\ \A i \in 1..Len(core) : Ch(core, i) \in LowerCase \cup {"-"}

\* The checks on core, the last segment.
isLikelyCore(core) ==
    IF core = "" THEN FALSE
    ELSE IF core \in TW_ROOTS \/ firstDashPart(core) \in TW_ROOTS THEN TRUE
    ELSE IF isLowerDash(core) /\ core \in TW_ROOTS THEN TRUE
    ELSE FALSE

\* const core = segments[segments.length - 1]; if (!core) return false; ...
isLikelySegments(segments) ==
    IF Len(segments) = 0 THEN FALSE ELSE isLikelyCore(segments[Len(segments)])

isLikelyTailwindToken(token) ==
    IF token = "" \/ hasUpperCase(token) THEN FALSE
    ELSE isLikelySegments(splitVariants(token))

----------------------------------------------------------------------------
(* prefixOneToken *)

\* The two returns: segments are the modifiers, last the popped utility.
prefixLast(important, segments, last, pre) ==
    IF startsWith(last, pre)
    THEN important \o join(Append(segments, last), ":")
    ELSE important \o join(Append(segments, pre \o last), ":")

\* const last = segments.pop() ?? ""
prefixSegments(important, all, pre) ==
    IF Len(all) = 0 THEN prefixLast(important, <<>>, "", pre)
    ELSE prefixLast(important, SubSeq(all, 1, Len(all) - 1), all[Len(all)], pre)

\* The body of prefixOneToken after its "if (!prefix) return token" guard.
prefixNonEmpty(token, pre) ==
    IF startsWith(token, "!")
    THEN prefixSegments("!", splitVariants(slice(token, 1)), pre)
    ELSE prefixSegments("", splitVariants(token), pre)

\* prefixOneToken without the empty-prefix guard
prefixOneToken_noGuard(token, pre) == prefixNonEmpty(token, pre)

prefixOneToken(token, pre) ==
    IF pre = "" THEN token ELSE prefixNonEmpty(token, pre)

----------------------------------------------------------------------------
(* transformClassesInString *)

\* The first index >= i of input that holds no whitespace (Len + 1 if none).
RECURSIVE skipWs(_, _)
skipWs(s, i) ==
    IF i > Len(s) \/ Ch(s, i) \notin WhiteSpace THEN i ELSE skipWs(s, i + 1)

\* input.split(/\s+/g): the pieces between the runs of whitespace, the empty
\* pieces at the two ends included.
RECURSIVE splitWs(_, _, _, _)
splitWs(s, i, cur, acc) ==
    IF i > Len(s) THEN Append(acc, cur)
    ELSE IF Ch(s, i) \in WhiteSpace
         THEN splitWs(s, skipWs(s, i), "", Append(acc, cur))
         ELSE splitWs(s, i + 1, cur \o Ch(s, i), acc)

\* The override predicates a caller may configure as isTwToken.
Overrides == {"always", "never"}

callOverride(f, tok) == f = "always"

\* (isTw ?? isLikelyTailwindToken)(tok)
shouldPrefix(f, tok) ==
    IF f = undefined THEN isLikelyTailwindToken(tok) ELSE callOverride(f, tok)

\* shouldPrefix ? prefixOneToken(tok, prefix) : tok
transformToken(tok, pre, f) ==
    IF shouldPrefix(f, tok) THEN prefixOneToken(tok, pre) ELSE tok

\* The "for (const tok of tokens)" loop from index i on; its result is out.
RECURSIVE transformTokens(_, _, _, _)
transformTokens(tokens, i, pre, f) ==
    IF i > Len(tokens) THEN <<>>
    ELSE IF tokens[i] = "" THEN transformTokens(tokens, i + 1, pre, f)
    ELSE <<transformToken(tokens[i], pre, f)>>
             \o transformTokens(tokens, i + 1, pre, f)

transformClassesInString(s, pre, f) ==
    join(transformTokens(splitWs(s, 1, "", <<>>), 1, pre, f), " ")

----------------------------------------------------------------------------
(* The syntax tree: JSX attributes and the expressions they hold *)

StringLiteral(v) == [type |-> "StringLiteral", value |-> v]

\* A template element: value.cooked is null only where the escape is invalid.
Quasi(text) == [cooked |-> text, raw |-> text]

TemplateLiteral(quasis, expressions) ==
    [type |-> "TemplateLiteral", quasis |-> quasis, expressions |-> expressions]

Identifier(name) == [type |-> "Identifier", name |-> name]

LogicalExpression(op, left, right) ==
    [type |-> "LogicalExpression", operator |-> op, left |-> left, right |-> right]

CallExpression(callee, args) ==
    [type |-> "CallExpression", callee |-> callee, arguments |-> args]

JSXExpressionContainer(e) == [type |-> "JSXExpressionContainer", expression |-> e]

NullNode == [type |-> "null"]

JSXAttribute(name, value) == [type |-> "JSXAttribute", name |-> name, value |-> value]

\* path.node.name: a JSXIdentifier holds a string, a JSXNamespacedName a node.
JSXIdentifier(n) == [type |-> "JSXIdentifier", name |-> n]
JSXNamespacedName(ns, n) ==
    [type |-> "JSXNamespacedName", namespace |-> JSXIdentifier(ns),
     name |-> JSXIdentifier(n)]

isStringLiteral(n) == n.type = "StringLiteral"
isTemplateLiteral(n) == n.type = "TemplateLiteral"
isLogicalExpression(n) == n.type = "LogicalExpression"
isCallExpression(n) == n.type = "CallExpression"
isIdentifier(n) == n.type = "Identifier"
isJSXExpressionContainer(n) == n.type = "JSXExpressionContainer"

\* names.includes(name)
includes(names, name) == \E i \in 1..Len(names) : names[i] = name

isTargetJSXAttribute(node, names) ==
    /\ node.name.type = "JSXIdentifier"    \* typeof name === "string"
    /\ includes(names, node.name.name)

\* node.quasis.map((q) => q.value.cooked ?? q.value.raw)
quasiTexts(quasis) ==
    [i \in 1..Len(quasis) |->
        IF quasis[i].cooked # null THEN quasis[i].cooked ELSE quasis[i].raw]

\* "if (node.expressions.length > 0) return null" left out
transformTemplateLiteralIfStatic_noSkip(node, pre, f) ==
    StringLiteral(transformClassesInString(join(quasiTexts(node.quasis), ""), pre, f))

\* Returns NullNode for the code's null.
transformTemplateLiteralIfStatic(node, pre, f) ==
    IF Len(node.expressions) > 0 THEN NullNode
    ELSE StringLiteral(
            transformClassesInString(join(quasiTexts(node.quasis), ""), pre, f))

\* (arg as any).type = "StringLiteral"; (arg as any).value = replaced.value:
\* the node keeps its other fields.
retype(node, replaced) ==
    [k \in (DOMAIN node) \cup {"type", "value"} |->
        IF k = "type" THEN "StringLiteral"
        ELSE IF k = "value" THEN replaced.value
        ELSE node[k]]

\* if (replaced && t.isStringLiteral(replaced)) { retype }
retypeIfReplaced(node, replaced) ==
    IF replaced # NullNode /\ isStringLiteral(replaced)
    THEN retype(node, replaced) ELSE node

\* A string literal or a template literal that is a call argument or the
\* right operand of one, rewritten in place; any other node as it is.
rewriteLiteralInPlace(node, pre, f) ==
    IF isStringLiteral(node) THEN
        [node EXCEPT !.value = transformClassesInString(@, pre, f)]
    ELSE IF isTemplateLiteral(node) THEN
        retypeIfReplaced(node, transformTemplateLiteralIfStatic(node, pre, f))
    ELSE node

\* The body of "for (const arg of args)".
transformArg(arg, pre, f) ==
    IF isStringLiteral(arg) \/ isTemplateLiteral(arg) THEN
        rewriteLiteralInPlace(arg, pre, f)
    ELSE IF isLogicalExpression(arg) THEN
        [arg EXCEPT !.right = rewriteLiteralInPlace(@, pre, f)]
    ELSE arg

transformArgs(args, pre, f) ==
    [i \in 1..Len(args) |-> transformArg(args[i], pre, f)]

HelperNames == {"clsx", "classnames"}

isHelperCall(val) ==
    /\ isJSXExpressionContainer(val)
    /\ isCallExpression(val.expression)
    /\ isIdentifier(val.expression.callee)
    /\ val.expression.callee.name \in HelperNames

\* The clsx/classnames block: val after its arguments were rewritten in place.
visitHelperCall(val, pre, f) ==
    IF isHelperCall(val)
    THEN [val EXCEPT !.expression.arguments = transformArgs(@, pre, f)]
    ELSE val

\* if (replaced) path.node.value = replaced
replaceValue(node, val, replaced) ==
    IF replaced # NullNode THEN [node EXCEPT !.value = replaced]
    ELSE [node EXCEPT !.value = val]

\* The two blocks after the clsx/classnames block: className="..." and
\* className={`...`}.
visitValue(node, val, pre, f) ==
    IF isStringLiteral(val) THEN
        [node EXCEPT !.value =
            [val EXCEPT !.value = transformClassesInString(@, pre, f)]]
    ELSE IF isJSXExpressionContainer(val) /\ isTemplateLiteral(val.expression) THEN
        replaceValue(node, val,
                     transformTemplateLiteralIfStatic(val.expression, pre, f))
    ELSE [node EXCEPT !.value = val]

\* The JSXAttribute visitor: the attribute node after the visit.
visitJSXAttribute(node, names, pre, f) ==
    IF ~isTargetJSXAttribute(node, names) THEN node
    ELSE visitValue(node, visitHelperCall(node.value, pre, f), pre, f)

\* traverse(ast, { JSXAttribute }): ast is the file's attributes in visit order.
traverse(ast, names, pre, f) ==
    [i \in 1..Len(ast) |-> visitJSXAttribute(ast[i], names, pre, f)]

----------------------------------------------------------------------------
(* makeFilter *)

UpperLetters == "ABCDEFGHIJKLMNOPQRSTUVWXYZ"
LowerLetters == "abcdefghijklmnopqrstuvwxyz"

toLowerCh(c) ==
    IF c \in UpperCase
    THEN Ch(LowerLetters, CHOOSE i \in 1..26 : Ch(UpperLetters, i) = c)
    ELSE c

RECURSIVE toLowerCase(_)
toLowerCase(s) ==
    IF s = "" THEN "" ELSE toLowerCh(Ch(s, 1)) \o toLowerCase(slice(s, 1))

endsWith(s, suf) ==
    Len(suf) <= Len(s) /\ SubSeq(s, Len(s) - Len(suf) + 1, Len(s)) = suf

contains(s, sub) ==
    \E i \in 1..(Len(s) - Len(sub) + 1) : SubSeq(s, i, i + Len(sub) - 1) = sub

\* /\.(jsx|tsx|js|ts)$/i.test(id)
defaultInclude(id) ==
    \E ext \in {".jsx", ".tsx", ".js", ".ts"} : endsWith(toLowerCase(id), ext)

\* /node_modules/.test(id)
defaultExclude(id) == contains(id, "node_modules")

\* makeFilter(opts)(id), for options that set neither include nor exclude
filter(id) == defaultInclude(id) /\ ~defaultExclude(id)

----------------------------------------------------------------------------
(* The plugin instance *)

\* An optional value: None is undefined or null, Some(v) is v.
None == <<>>
Some(v) == <<v>>

\* o ?? d
orElse(o, d) == IF o = None THEN d ELSE o[1]

\* userOpts?.attributes ?? ["className", "class", "tw"]
attrsOf(opts) == orElse(opts.attributes, <<"className", "class", "tw">>)

\* buildStart forgets the configured prefix
buildStartPrefix_empty(opts) == ""

\* buildStart: userOpts?.prefixOverride ?? ""
buildStartPrefix(opts) == orElse(opts.prefixOverride, "")

\* transform: cachedPrefix ?? ""
readPrefix(cp) == orElse(cp, "")

NoResult ==
    [ret |-> "none", id |-> "", in |-> <<>>, out |-> <<>>, prefix |-> "",
     builds |-> 0, inPrefix |-> None]

FnIdle ==
    /\ pc = "idle"
    /\ input = ""
    /\ prefix = ""
    /\ isTw = undefined
    /\ segs = <<>>
    /\ likely = FALSE
    /\ once = ""
    /\ twice = ""
    /\ rw = ""
    /\ rwBang = ""
    /\ out1 = ""
    /\ out2 = ""

(* Inputs of the plugin specification *)

OptionSets ==
    [prefixOverride : {None, Some("tw-"), Some("tw:")},
     attributes : {None, Some(<<"data-class">>)},
     isTwToken : {undefined, "always"}]

ClassTexts == {"bg-red-500 text-white", " flex  items-center ",
               "tw-bg-blue-500 tw-bg-red-500", "MyClass custom-class"}

cond == Identifier("cond")

StaticTemplate(text) == TemplateLiteral(<<Quasi(text)>>, <<>>)
DynamicTemplate == TemplateLiteral(<<Quasi("flex "), Quasi(" p-4")>>, <<cond>>)

ArgumentLists ==
    { <<StringLiteral("bg-red-500"),
        LogicalExpression("&&", cond, StringLiteral("text-white"))>>,
      <<StaticTemplate("flex  p-4"), DynamicTemplate,
        LogicalExpression("&&", cond, StaticTemplate("grid gap-2"))>>,
      <<LogicalExpression("||", cond, StringLiteral("flex")),
        LogicalExpression("??", cond, StaticTemplate("p-4"))>>,
      <<LogicalExpression("&&", StringLiteral("flex"), DynamicTemplate),
        LogicalExpression("&&", LogicalExpression("||", cond, StringLiteral("flex")),
                          cond)>>,
      <<[type |-> "ObjectExpression",
         properties |-> <<[key |-> StringLiteral("flex"), val |-> cond]>>],
        [type |-> "ArrayExpression", elements |-> <<StringLiteral("flex")>>],
        [type |-> "SpreadElement", argument |-> cond],
        cond>> }

Callees ==
    { Identifier("clsx"), Identifier("classnames"), Identifier("cn"),
      [type |-> "MemberExpression", object |-> Identifier("utils"),
       property |-> Identifier("clsx")] }

AttributeValues ==
    {StringLiteral(c) : c \in ClassTexts}
    \cup {JSXExpressionContainer(StaticTemplate(c)) : c \in ClassTexts}
    \cup {JSXExpressionContainer(DynamicTemplate)}
    \cup {JSXExpressionContainer(CallExpression(c, a)) :
              c \in Callees, a \in ArgumentLists}
    \cup {JSXExpressionContainer(StringLiteral("flex")),
          JSXExpressionContainer(cond),
          NullNode}

OtherAttributeNames ==
    { JSXIdentifier("class"), JSXIdentifier("tw"), JSXIdentifier("id"),
      JSXIdentifier("data-class"), JSXNamespacedName("xlink", "class") }

OtherAttributeValues ==
    { StringLiteral("bg-red-500 text-white"),
      JSXExpressionContainer(StaticTemplate("flex  p-4")),
      JSXExpressionContainer(CallExpression(Identifier("clsx"),
          <<StringLiteral("bg-red-500"),
            LogicalExpression("&&", cond, StringLiteral("text-white"))>>)) }

\* A parsed source unit: its JSX attributes, in the order traverse visits them.
Asts ==
    {<<JSXAttribute(JSXIdentifier("className"), v)>> : v \in AttributeValues}
    \cup {<<JSXAttribute(n, v)>> :
              n \in OtherAttributeNames, v \in OtherAttributeValues}
    \cup {<<JSXAttribute(JSXIdentifier("id"), StringLiteral("flex")),
            JSXAttribute(JSXIdentifier("className"), StringLiteral("flex p-4"))>>}

\* The files the host hands to transform: <<id, ast>>.
SourceFiles ==
    {<<"Component.tsx", ast>> : ast \in Asts}
    \cup {<<id, <<JSXAttribute(JSXIdentifier("className"), StringLiteral("flex"))>> >> :
              id \in {"App.JSX", "node_modules/pkg/index.js", "styles.css"}}

Init ==
    /\ userOpts \in OptionSets
    /\ cachedPrefix = None
    /\ builds = 0
    /\ transforms = 0
    /\ res = NoResult
    /\ FnIdle

\* async buildStart()
BuildStart ==
    /\ builds < MaxBuilds
    /\ cachedPrefix' = Some(buildStartPrefix(userOpts))
    /\ builds' = builds + 1
    /\ UNCHANGED <<userOpts, transforms, res>>
    /\ UNCHANGED fnVars

\* async transform(code, id): code parses to ast. The call has no await, so it
\* runs to completion before any other call of the instance.
TransformCall(id, ast, inPrefix) ==
    /\ transforms < MaxTransforms
    /\ transforms' = transforms + 1
    /\ IF ~filter(id)
       THEN res' = [ret |-> "null", id |-> id, in |-> ast, out |-> ast,
                    prefix |-> "", builds |-> builds, inPrefix |-> inPrefix]
       ELSE LET pre == readPrefix(cachedPrefix)
            IN  res' = [ret |-> "code", id |-> id, in |-> ast,
                        out |-> traverse(ast, attrsOf(userOpts), pre,
                                         userOpts.isTwToken),
                        prefix |-> pre, builds |-> builds,
                        inPrefix |-> inPrefix]
    /\ UNCHANGED <<userOpts, cachedPrefix, builds>>
    /\ UNCHANGED fnVars

\* transform of a source file
Transform == \E f \in SourceFiles : TransformCall(f[1], f[2], None)

\* transform of the output of the previous transform
TransformAgain ==
    /\ res.ret = "code"
    /\ TransformCall(res.id, res.out, Some(res.prefix))

Next == BuildStart \/ Transform \/ TransformAgain

Spec == Init /\ [][Next]_vars

----------------------------------------------------------------------------
(* The token-level functions applied to one token *)

PluginIdle ==
    /\ userOpts = [prefixOverride |-> None, attributes |-> None,
                   isTwToken |-> undefined]
    /\ cachedPrefix = None
    /\ builds = 0
    /\ transforms = 0
    /\ res = NoResult

TokenAlphabet == {"a", ":", "[", "]", "'", "\\", "!"}

\* Every string over alphabet A of length at most n.
RECURSIVE StringsUpTo(_, _)
StringsUpTo(A, n) ==
    IF n = 0 THEN {""}
    ELSE {s \o c : s \in StringsUpTo(A, n - 1), c \in A \cup {""}}

\* Utility-shaped tokens: a vocabulary entry, alone or with a value, behind
\* an optional modifier or an already applied prefix.
VocabularyTokens ==
    {m \o r \o v : m \in {"", "hover:", "tw-"}, r \in TW_ROOTS, v \in {"", "-4"}}

TokenInputs == StringsUpTo(TokenAlphabet, MaxTokLen) \cup VocabularyTokens

TokenPrefixes == {"", "a", "tw-", "tw:", "'", "!"}

TokenInit ==
    /\ PluginIdle
    /\ pc = "split"
    /\ input \in TokenInputs
    /\ prefix \in TokenPrefixes
    /\ isTw = undefined
    /\ segs = <<>>
    /\ likely = FALSE
    /\ once = ""
    /\ twice = ""
    /\ rw = ""
    /\ rwBang = ""
    /\ out1 = ""
    /\ out2 = ""

Split ==
    /\ pc = "split"
    /\ segs' = splitVariants(input)
    /\ pc' = "classify"
    /\ UNCHANGED <<input, prefix, isTw, likely, once, twice, rw, rwBang, out1, out2>>
    /\ UNCHANGED pluginVars

Classify ==
    /\ pc = "classify"
    /\ likely' = isLikelyTailwindToken(input)
    /\ pc' = "prefix"
    /\ UNCHANGED <<input, prefix, isTw, segs, once, twice, rw, rwBang, out1, out2>>
    /\ UNCHANGED pluginVars

PrefixOnce ==
    /\ pc = "prefix"
    /\ once' = prefixOneToken(input, prefix)
    /\ pc' = "prefixAgain"
    /\ UNCHANGED <<input, prefix, isTw, segs, likely, twice, rw, rwBang, out1, out2>>
    /\ UNCHANGED pluginVars

PrefixAgain ==
    /\ pc = "prefixAgain"
    /\ twice' = prefixOneToken(once, prefix)
    /\ pc' = "rewrite"
    /\ UNCHANGED <<input, prefix, isTw, segs, likely, once, rw, rwBang, out1, out2>>
    /\ UNCHANGED pluginVars

RewriteToken ==
    /\ pc = "rewrite"
    /\ rw' = transformClassesInString(input, prefix, isTw)
    /\ pc' = "rewriteImportant"
    /\ UNCHANGED <<input, prefix, isTw, segs, likely, once, twice, rwBang, out1, out2>>
    /\ UNCHANGED pluginVars

RewriteImportant ==
    /\ pc = "rewriteImportant"
    /\ rwBang' = transformClassesInString("!" \o input, prefix, isTw)
    /\ pc' = "done"
    /\ UNCHANGED <<input, prefix, isTw, segs, likely, once, twice, rw, out1, out2>>
    /\ UNCHANGED pluginVars

TokenNext ==
    Split \/ Classify \/ PrefixOnce \/ PrefixAgain \/ RewriteToken \/ RewriteImportant

TokenSpec == TokenInit /\ [][TokenNext]_vars

----------------------------------------------------------------------------
(* The String Rewriter applied to one class string *)

StringTokens == {"flex", "p-4", "bg-Red", "MyClass", "custom", "tw-flex", "flex:"}

Separators == {" ", "  ", "\n\t"}

\* n tokens with whitespace between them
RECURSIVE TokenRuns(_)
TokenRuns(n) ==
    IF n = 0 THEN {""}
    ELSE IF n = 1 THEN StringTokens
    ELSE {r \o sep \o t : r \in TokenRuns(n - 1), sep \in Separators,
                          t \in StringTokens}

\* Class strings of at most MaxToks tokens, with or without whitespace at
\* the two ends.
ClassStrings ==
    {lead \o r \o trail :
        lead \in {"", " "}, trail \in {"", " "},
        r \in UNION {TokenRuns(n) : n \in 0..MaxToks}}

StringPrefixes == {"", "tw-", "tw:"}

StringInit ==
    /\ PluginIdle
    /\ pc = "rewrite"
    /\ input \in ClassStrings
    /\ prefix \in StringPrefixes
    /\ isTw \in {undefined} \cup Overrides
    /\ segs = <<>>
    /\ likely = FALSE
    /\ once = ""
    /\ twice = ""
    /\ rw = ""
    /\ rwBang = ""
    /\ out1 = ""
    /\ out2 = ""

Rewrite ==
    /\ pc = "rewrite"
    /\ out1' = transformClassesInString(input, prefix, isTw)
    /\ pc' = "rewriteAgain"
    /\ UNCHANGED <<input, prefix, isTw, segs, likely, once, twice, rw, rwBang, out2>>
    /\ UNCHANGED pluginVars

RewriteAgain ==
    /\ pc = "rewriteAgain"
    /\ out2' = transformClassesInString(out1, prefix, isTw)
    /\ pc' = "done"
    /\ UNCHANGED <<input, prefix, isTw, segs, likely, once, twice, rw, rwBang, out1>>
    /\ UNCHANGED pluginVars

StringNext == Rewrite \/ RewriteAgain

StringSpec == StringInit /\ [][StringNext]_vars

----------------------------------------------------------------------------
(* Vocabulary of the properties: what the specification calls a top-level  *)
(* colon, a root, a token of a class string and a rewrite target.          *)

\* The i-th character of token is a ":" outside every bracket and quote.
TopLevelColonAt(token, i) ==
    /\ Ch(token, i) = ":"
    /\ splitLoop(token, i - 1).quote = null
    /\ splitLoop(token, i - 1).depth = 0

TopLevelColons(token) == {i \in 1..Len(token) : TopLevelColonAt(token, i)}

\* Some ":" of token lies inside a bracketed or quoted span.
HasHiddenColon(token) ==
    \E i \in 1..Len(token) : Ch(token, i) = ":" /\ ~TopLevelColonAt(token, i)

EndsWithTopLevelColon(token) == Len(token) > 0 /\ TopLevelColonAt(token, Len(token))

\* The index of the last top-level colon, 0 if there is none.
LastTopLevelColon(token) ==
    IF TopLevelColons(token) = {} THEN 0
    ELSE CHOOSE i \in TopLevelColons(token) : \A j \in TopLevelColons(token) : j <= i

\* The root: what follows the last top-level colon.
RootOf(token) == SubSeq(token, LastTopLevelColon(token) + 1, Len(token))

\* The modifiers with their colons: what precedes the root.
ModifiersOf(token) == SubSeq(token, 1, LastTopLevelColon(token))

Unmarked(token) == IF startsWith(token, "!") THEN slice(token, 1) ELSE token
Marker(token) == IF startsWith(token, "!") THEN "!" ELSE ""

\* The token with the prefix put immediately before its root and nothing else
\* changed; the token itself where the root already starts with the prefix.
PrefixedAtRoot(token, pre) ==
    IF startsWith(RootOf(Unmarked(token)), pre) THEN token
    ELSE Marker(token) \o ModifiersOf(Unmarked(token)) \o pre
             \o RootOf(Unmarked(token))

\* A vocabulary entry, or a vocabulary entry followed by "-" and a value.
VocabularyShaped(root) ==
    \/ root \in TW_ROOTS
    \/ \E e \in TW_ROOTS : startsWith(root, e \o "-") /\ Len(root) > Len(e) + 1

ContainsUpperCase(token) == \E i \in 1..Len(token) : Ch(token, i) \in UpperCase

\* The tokens of a class string: its maximal runs of non-whitespace.
RECURSIVE WordsFrom(_, _, _)
WordsFrom(s, i, cur) ==
    IF i > Len(s) THEN (IF cur = "" THEN <<>> ELSE <<cur>>)
    ELSE IF Ch(s, i) \in WhiteSpace
         THEN (IF cur = "" THEN <<>> ELSE <<cur>>) \o WordsFrom(s, i + 1, "")
         ELSE WordsFrom(s, i + 1, cur \o Ch(s, i))

Words(s) == WordsFrom(s, 1, "")

RECURSIVE SpaceJoined(_)
SpaceJoined(words) ==
    IF Len(words) = 0 THEN ""
    ELSE IF Len(words) = 1 THEN words[1]
    ELSE words[1] \o " " \o SpaceJoined(Tail(words))

\* s with its tokens kept and every run of whitespace made one space (none
\* at the two ends).
Normalized(s) == SpaceJoined(Words(s))

\* The harness has applied every function.
Applied == pc = "done"

\* The prefix the instance is configured with.
ConfiguredPrefix ==
    IF userOpts.prefixOverride = None THEN "" ELSE userOpts.prefixOverride[1]

ConfiguredNames ==
    IF userOpts.attributes = None THEN {"className", "class", "tw"}
    ELSE {userOpts.attributes[1][i] : i \in 1..Len(userOpts.attributes[1])}

\* y is x with at most its value changed.
SameButValue(x, y) ==
    /\ DOMAIN y = DOMAIN x
    /\ \A k \in DOMAIN x \ {"value"} : y[k] = x[k]

\* y is template literal x turned into a string literal: type and value set,
\* every other field kept.
Retyped(x, y) ==
    /\ DOMAIN y = DOMAIN x \cup {"value"}
    /\ y.type = "StringLiteral"
    /\ \A k \in DOMAIN x \ {"type", "value"} : y[k] = x[k]

Same(x, y) == y = x

\* x is a rewritable literal inside a helper call and y what a pass may make
\* of it; any other x is left as it is.
LiteralFrame(x, y) ==
    IF x.type = "StringLiteral" THEN SameButValue(x, y)
    ELSE IF x.type = "TemplateLiteral" /\ Len(x.expressions) = 0
    THEN Retyped(x, y) \/ Same(x, y)
    ELSE Same(x, y)

\* Argument x of a helper call and y, the same argument after the pass; ops
\* are the logical operators whose right operand may be rewritten.
ArgumentFrame(x, y, ops) ==
    IF x.type = "LogicalExpression" THEN
        /\ DOMAIN y = DOMAIN x
        /\ y.type = x.type
        /\ y.operator = x.operator
        /\ Same(x.left, y.left)
        /\ IF x.operator \in ops THEN LiteralFrame(x.right, y.right)
           ELSE Same(x.right, y.right)
    ELSE LiteralFrame(x, y)

IsHelperCallValue(v) ==
    /\ v.type = "JSXExpressionContainer"
    /\ v.expression.type = "CallExpression"
    /\ v.expression.callee.type = "Identifier"
    /\ v.expression.callee.name \in {"clsx", "classnames"}

\* Value v of a target attribute and w, the value after the pass.
ValueFrame(v, w, ops) ==
    IF v.type = "StringLiteral" THEN SameButValue(v, w)
    ELSE IF v.type = "JSXExpressionContainer"
            /\ v.expression.type = "TemplateLiteral" THEN
        IF Len(v.expression.expressions) = 0
        THEN (w.type = "StringLiteral" /\ DOMAIN w = {"type", "value"}) \/ Same(v, w)
        ELSE Same(v, w)
    ELSE IF IsHelperCallValue(v) THEN
        /\ DOMAIN w = DOMAIN v
        /\ w.type = v.type
        /\ DOMAIN w.expression = DOMAIN v.expression
        /\ w.expression.type = v.expression.type
        /\ w.expression.callee = v.expression.callee
        /\ Len(w.expression.arguments) = Len(v.expression.arguments)
        /\ \A j \in 1..Len(v.expression.arguments) :
              ArgumentFrame(v.expression.arguments[j],
                            w.expression.arguments[j], ops)
    ELSE Same(v, w)

AttributeFrame(a, b, ops) ==
    /\ DOMAIN b = DOMAIN a
    /\ b.type = a.type
    /\ b.name = a.name
    /\ IF a.name.type = "JSXIdentifier" /\ a.name.name \in ConfiguredNames
       THEN ValueFrame(a.value, b.value, ops)
       ELSE Same(a.value, b.value)

\* One pass turned tree in into tree out and touched rewrite targets only.
PassFrame(in, out, ops) ==
    /\ Len(out) = Len(in)
    /\ \A i \in 1..Len(in) : AttributeFrame(in[i], out[i], ops)

----------------------------------------------------------------------------
(* The claims *)

\* C1 (as claimed): the pipeline is idempotent: rewriting the already
\* rewritten class string again, with the same prefix and the default
\* classifier, gives the same string.
C1_PipelineIdempotent ==
    (Applied /\ isTw = undefined) => out2 = out1

\* C2 (as claimed): the prefixer is idempotent for every token and every
\* prefix: prefixOneToken(prefixOneToken(t, p), p) = prefixOneToken(t, p).
C2_PrefixerIdempotent ==
    Applied => twice = once

\* C3 (as claimed): for every token with no ":" inside a bracketed or quoted
\* span, tokens with trailing top-level colons included, joining
\* splitVariants(token) with ":" gives the token back.
C3_SplitRoundTrip ==
    (Applied /\ ~HasHiddenColon(input)) => join(segs, ":") = input

\* C3 (amended): for every token with no ":" inside a bracketed or quoted span
\* that does not end with a top-level ":", joining splitVariants(token) with
\* ":" gives the token back; leading and consecutive colons are kept.
C3_SplitRoundTripUnlessTrailingColon ==
    (Applied /\ ~HasHiddenColon(input) /\ ~EndsWithTopLevelColon(input))
        => join(segs, ":") = input

\* C3 witness: a token with a leading and a consecutive top-level colon was
\* split into its three segments.
C3_Witness ==
    Applied /\ input = "::a" /\ segs = <<"", "", "a">>

\* C4 (as claimed): for every token and non-empty prefix, prefixOneToken puts
\* the prefix immediately before the root and keeps every modifier, every
\* colon and a leading "!" as they were; a token whose root already starts
\* with the prefix comes back unchanged.
C4_PrefixOnlyTheRoot ==
    (Applied /\ prefix # "") => once = PrefixedAtRoot(input, prefix)

\* C5 (as claimed): every lowercase token whose root is a vocabulary entry, or
\* a vocabulary entry followed by "-" and a value, is classified as a utility
\* class, also when the entry itself holds a hyphen.
C5_VocabularyAccepted ==
    (Applied /\ ~ContainsUpperCase(input) /\ ~HasHiddenColon(input)
        /\ VocabularyShaped(RootOf(input)))
        => likely

\* C6 (as claimed): for every token t without a leading "!" and every
\* non-empty prefix, the String Rewriter with the default classifier rewrites
\* "!" + t to "!" followed by its rewrite of t.
C6_ImportantMarkerReattached ==
    (Applied /\ prefix # "" /\ input # "" /\ ~startsWith(input, "!"))
        => rwBang = "!" \o rw

\* C7 (as claimed): a pass changes rewrite targets only, and the right
\* operand of a logical expression is a target only under &&.
C7_PassFrameLogicalAnd ==
    res.ret = "code" => PassFrame(res.in, res.out, {"&&"})

\* C7 (amended): a pass changes rewrite targets only, where the right operand
\* of a logical expression argument is a target under every logical operator
\* (&&, || and ??); dynamic template literals, left operands, other argument
\* shapes, other callees and attributes of other names are left as they were.
C7_PassFrameAnyLogical ==
    res.ret = "code" => PassFrame(res.in, res.out, {"&&", "||", "??"})

\* C7 witness: a pass with prefix tw- over className={clsx(`flex  p-4`,
\* `flex ${cond} p-4`, cond && `grid gap-2`)} rewrote the static templates
\* and left the dynamic one.
C7_Witness ==
    /\ res.ret = "code"
    /\ res.prefix = "tw-"
    /\ Len(res.in) = 1
    /\ res.in[1].name = JSXIdentifier("className")
    /\ IsHelperCallValue(res.in[1].value)
    /\ Len(res.in[1].value.expression.arguments) = 3
    /\ res.in[1].value.expression.arguments[2] = DynamicTemplate
    /\ res.out[1].value.expression.arguments[2] = DynamicTemplate
    /\ res.out[1].value.expression.arguments[1].type = "StringLiteral"
    /\ res.out[1].value.expression.arguments[1].value = "tw-flex tw-p-4"
    /\ res.out[1].value.expression.arguments[3].right.value = "tw-grid tw-gap-2"

\* C8 (as claimed): a token that holds an uppercase letter is never rewritten:
\* the String Rewriter emits every such token unchanged, whatever the
\* configuration.
C8_UpperCaseNeverRewritten ==
    Applied =>
        /\ Len(Words(out1)) = Len(Words(input))
        /\ \A i \in 1..Len(Words(input)) :
              ContainsUpperCase(Words(input)[i]) => Words(out1)[i] = Words(input)[i]

\* C8 (amended): when no override classifier is configured, the String
\* Rewriter emits every token that holds an uppercase letter unchanged.
C8_UpperCaseKeptByDefaultClassifier ==
    (Applied /\ isTw = undefined) =>
        /\ Len(Words(out1)) = Len(Words(input))
        /\ \A i \in 1..Len(Words(input)) :
              ContainsUpperCase(Words(input)[i]) => Words(out1)[i] = Words(input)[i]

\* C8 witness: with the default classifier and prefix tw-, "bg-Red flex" was
\* rewritten to "bg-Red tw-flex".
C8_Witness ==
    /\ Applied
    /\ isTw = undefined
    /\ prefix = "tw-"
    /\ input = "bg-Red flex"
    /\ out1 = "bg-Red tw-flex"

\* C9 (as claimed): with the empty prefix the rewrite returns every class
\* string exactly as it was, whitespace included.
C9_EmptyPrefixIsIdentity ==
    (Applied /\ prefix = "") => out1 = input

\* C9 (amended): with the empty prefix the rewrite keeps every token as it
\* was and only normalizes the whitespace: the result is the tokens of the
\* string joined by single spaces.
C9_EmptyPrefixKeepsTokens ==
    (Applied /\ prefix = "") => out1 = Normalized(input)

\* C9 witness: with the empty prefix, " flex:  p-4" came out as "flex: p-4".
C9_Witness ==
    /\ Applied
    /\ prefix = ""
    /\ isTw = undefined
    /\ input = " flex:  p-4"
    /\ out1 = "flex: p-4"

\* C10 (as claimed): every transform of an included file rewrites with the
\* configured prefix, whether or not buildStart has run.
C10_ConfiguredPrefixAlways ==
    res.ret = "code" =>
        res.out = traverse(res.in, attrsOf(userOpts), ConfiguredPrefix,
                           userOpts.isTwToken)

\* C10 (amended): every transform of an included file that runs after a
\* buildStart rewrites with the configured prefix, and one that runs before
\* the first buildStart rewrites with the empty prefix, however many calls
\* came before; the cached prefix is null until the first buildStart and the
\* configured prefix from then on, so no transform writes it.
C10_ConfiguredPrefixOnceBuilt ==
    /\ cachedPrefix = IF builds = 0 THEN None ELSE Some(ConfiguredPrefix)
    /\ res.ret = "code" =>
          /\ res.prefix = IF res.builds = 0 THEN "" ELSE ConfiguredPrefix
          /\ res.out = traverse(res.in, attrsOf(userOpts), res.prefix,
                                userOpts.isTwToken)

\* C10 witness: the second transform of an instance configured with tw-, run
\* after one buildStart, rewrote its file with tw-.
C10_Witness ==
    /\ transforms = 2
    /\ res.ret = "code"
    /\ res.builds = 1
    /\ ConfiguredPrefix = "tw-"
    /\ res.prefix = "tw-"
    /\ res.out # res.in

====
